---- MODULE Spec2Model ----
(***************************************************************************)
(* Model of the Tomb Riders backend (src/app.py): the map builder          *)
(* (maps_create), the raid session engine (raid_scout, raid_start,         *)
(* raid_dig, raid_leave) and the tomb claim (my_tombs_claim), over the     *)
(* users, maps, raid_sessions and transactions tables; the same handlers   *)
(* served concurrently; and the validation of initData.                    *)
(*                                                                         *)
(* Conventions                                                             *)
(*  - Money is counted in hundredths of a coin: 0.01 is 1, 0.1 is 10,      *)
(*    1.0 is 100.                                                          *)
(*  - A table with a SERIAL id is a sequence; the id of a row is its       *)
(*    position (ids start at 1).  users is a function from the ids of the *)
(*    existing rows to the rows.                                           *)
(*  - Python lists are sequences; the Python index i is position i + 1.   *)
(*  - A TEXT column holding JSON is a record [ok, val]: ok says whether    *)
(*    the text parses, val is the value it parses to.                      *)
(*  - One request is one transaction: a handler that returns or raises     *)
(*    before conn.commit() commits nothing.                                *)
(*  - A fetched row gives its columns by name, and expires_at in the form  *)
(*    datetime.fromisoformat reads, as the rows of src/test_validate.py    *)
(*    do.  Whether a row also gives its columns by position (map_data[0]   *)
(*    in raid_start) is decided by the cursor factory of the driver: the   *)
(*    RealDictCursor that get_db_connection asks for keys its rows by      *)
(*    column name only, so the read raises KeyError; a row type that       *)
(*    answers to positions lets it through.  Both outcomes are modelled.   *)
(*  - In the handlers' actions require_auth has already produced the      *)
(*    caller's user_id and the rate limiter has admitted the request;      *)
(*    validate_init_data and require_auth are modelled on their own.       *)
(*  - A handler is an operator from the request to its outcome in the      *)
(*    current state: the response and the tables as committed.  The        *)
(*    action of the same name commits that outcome.                        *)
(***************************************************************************)
EXTENDS Integers, Sequences, FiniteSets, TLC

VARIABLES
    users,      \* table users: id -> [balance, builder_credits]
    maps,       \* table maps
    sessions,   \* table raid_sessions
    ledger,     \* table transactions
    now,        \* the clock read by datetime.now()
    earned,     \* per session, the sum of the rewards its safe digs returned
    pc,         \* position in the end-to-end scenario ("any": no scenario)
    inflight    \* the requests being served concurrently, one per worker

vars == <<users, maps, sessions, ledger, now, earned, pc, inflight>>

(***************************************************************************)
(* Program constants                                                       *)
(***************************************************************************)
GRID_CELLS == 48
SNAKES == 4
HOLES == 2
CHESTS == 2
FEE == 10
REWARD_CHEST == 5
REWARD_EMPTY == 1
CLAIM_REWARD == 100
CLAIM_TARGET == 12
STAGE_TARGET == 12
SESSION_SECONDS == 120
LOGIN_BALANCE == 100
LOGIN_CREDITS == 5

\* cell-type codes
EMPTY == 0
WALL == 1
SNAKE == 2
HOLE == 3
CHEST == 4

(***************************************************************************)
(* Bounds of the model                                                     *)
(***************************************************************************)
MaxMaps == 1
MaxSessions == 1
MaxLedger == 3
MaxDug == 2
MaxCell == 5
MaxTime == 240
TickStep == 120
MaxCreated == 6

Users == {1, 2}
\* a request field that is absent (JSON null / missing key)
NoneVal == -99
\* the default None handed to safe_json_loads for essential map data
None == <<-1>>

(***************************************************************************)
(* JSON text columns                                                       *)
(***************************************************************************)
json_dumps(v) == [ok |-> TRUE, val |-> v]
\* a stored text that json.loads rejects
BadJson == [ok |-> FALSE, val |-> <<>>]
\* a variant of safe_json_loads that answers None whatever the default
safe_json_loads_none(data, default) == IF data.ok THEN data.val ELSE <<-1>>
safe_json_loads(data, default) == IF data.ok THEN data.val ELSE default

(***************************************************************************)
(* Grids                                                                   *)
(***************************************************************************)
\* grid[i] for a Python index i
Cell(grid, i) == grid[i + 1]
\* sum(1 for x in grid if x == v)
Count(grid, v) == Cardinality({i \in DOMAIN grid : grid[i] = v})

\* A layout with w walls: index 0 empty, 1 a wall, 2 a snake, 3 a hole, 4-5 the
\* chest, 6-7 empty, 8-10 snakes, 11 a hole, then w - 1 walls, the rest empty.
MkGrid(w) ==
    [p \in 1..GRID_CELLS |->
        LET i == p - 1 IN
        IF i \in {4, 5} THEN CHEST
        ELSE IF i \in {2, 8, 9, 10} THEN SNAKE
        ELSE IF i \in {3, 11} THEN HOLE
        ELSE IF i = 1 \/ (i >= 12 /\ i < 12 + w - 1) THEN WALL
        ELSE EMPTY]
\* the layout of the spec's scenario: 16 walls, 24 empty cells
GridA == MkGrid(16)
\* a layout with 30 walls: 10 empty cells and the chest, 12 safe cells
GridB == MkGrid(30)

(***************************************************************************)
(* Responses and outcomes                                                  *)
(***************************************************************************)
\* a response: the HTTP code, the error or status text, and the reward,
\* stage_complete and id fields of the body (NoneVal: the body has none)
Response(code, msg, reward, flag, rid) ==
    [code |-> code, msg |-> msg, reward |-> reward, flag |-> flag, rid |-> rid]
\* the outcome of a request: its response and the tables after it
Outcome(resp, u, m, s, l) ==
    [resp |-> resp, users |-> u, maps |-> m, sessions |-> s, ledger |-> l]
\* an error response: nothing is committed
Fail(code, msg) ==
    Outcome(Response(code, msg, NoneVal, FALSE, NoneVal), users, maps, sessions, ledger)
\* no refusal: the handler goes on to its writes
Pass == Fail(0, "pass")
\* the tables become those of the outcome
Commit(outcome) ==
    /\ users' = outcome.users
    /\ maps' = outcome.maps
    /\ sessions' = outcome.sessions
    /\ ledger' = outcome.ledger
    /\ UNCHANGED now

(***************************************************************************)
(* login                                                                   *)
(***************************************************************************)
NewUser == [balance |-> LOGIN_BALANCE, builder_credits |-> LOGIN_CREDITS]
\* WHERE player_id = user_id AND status = 'active': fetchone() gives one of them
active_sessions(user_id) ==
    {s \in DOMAIN sessions :
        sessions[s].player_id = user_id /\ sessions[s].status = "active"}

login_user(user_id) ==
    Outcome(Response(200, "ok", NoneVal, FALSE, NoneVal),
            IF user_id \in DOMAIN users THEN users
            ELSE [x \in DOMAIN users \cup {user_id} |->
                    IF x = user_id THEN NewUser ELSE users[x]],
            maps, sessions, ledger)
login(user_id) == Commit(login_user(user_id))

(***************************************************************************)
(* maps_create                                                             *)
(***************************************************************************)
\* `not grid or len(grid) != 48`
invalid_grid(grid) == grid = <<>> \/ Len(grid) # GRID_CELLS
\* `snakes != 4 or holes != 2 or chests != 2`
invalid_placement(grid) ==
    Count(grid, SNAKE) # SNAKES \/ Count(grid, HOLE) # HOLES \/ Count(grid, CHEST) # CHESTS
\* chest_positions, as Python indices
chest_positions(grid) == {p - 1 : p \in {q \in DOMAIN grid : grid[q] = CHEST}}
\* a variant of chest_not_adjacent that only counts the chest cells
chest_count_only(grid) == Cardinality(chest_positions(grid)) # 2
\* `len(chest_positions) != 2 or abs(chest_positions[0] - chest_positions[1]) != 1`
chest_not_adjacent(grid) ==
    LET cp == chest_positions(grid) IN
    \/ Cardinality(cp) # 2
    \/ \A a \in cp : \A b \in cp : a < b => b - a # 1
\* a variant of no_credits that lets a creator with no credit left through
no_credits_below_zero(user_id) ==
    user_id \notin DOMAIN users \/ users[user_id].builder_credits < 0
\* `not credits_row or credits_row['builder_credits'] <= 0`
no_credits(user_id) ==
    user_id \notin DOMAIN users \/ users[user_id].builder_credits <= 0
\* INSERT INTO maps (creator_id, grid_json), the other columns at their defaults
NewMap(user_id, grid) ==
    [creator_id |-> user_id, grid_json |-> json_dumps(grid),
     dug_json |-> json_dumps(<<>>), active |-> TRUE, is_archived |-> FALSE]

\* the handler from its first write on: the relative UPDATE of the credits,
\* the INSERT of the map and the commit
create_writes(user_id, grid) ==
    Outcome(Response(200, "success", NoneVal, FALSE, NoneVal),
            [users EXCEPT ![user_id].builder_credits = @ - 1],
            Append(maps, NewMap(user_id, grid)),
            sessions, ledger)

\* the handler up to its first write: the refusal it returns, or Pass
create_checks(user_id, grid) ==
    IF invalid_grid(grid) THEN Fail(400, "Invalid grid")
    ELSE IF invalid_placement(grid) THEN Fail(400, "Invalid placement")
    ELSE IF chest_not_adjacent(grid) THEN Fail(400, "Chest must be adjacent")
    ELSE IF no_credits(user_id) THEN Fail(400, "No credits")
    ELSE Pass

create_map(user_id, grid) ==
    IF create_checks(user_id, grid) # Pass THEN create_checks(user_id, grid)
    ELSE create_writes(user_id, grid)
maps_create(user_id, grid) == Commit(create_map(user_id, grid))

(***************************************************************************)
(* raid_scout                                                              *)
(***************************************************************************)
\* WHERE active = TRUE AND creator_id != user_id ORDER BY RANDOM() LIMIT 1:
\* the response names one of these
scout_candidates(user_id) ==
    {m \in DOMAIN maps : maps[m].active /\ maps[m].creator_id # user_id}

scout(user_id) ==
    IF scout_candidates(user_id) = {} THEN Fail(404, "No maps available")
    ELSE Outcome(Response(200, "ok", NoneVal, FALSE, NoneVal), users, maps, sessions, ledger)
raid_scout(user_id) == Commit(scout(user_id))

(***************************************************************************)
(* raid_start                                                              *)
(***************************************************************************)
\* `balance_row['balance'] if balance_row else 0.0`
balance_of(user_id) ==
    IF user_id \in DOMAIN users THEN users[user_id].balance ELSE 0
\* `if balance < fee`
insufficient_balance(user_id) == balance_of(user_id) < FEE
\* a variant of Tx that records the size of the amount without its sign
Tx_unsigned(user_id, amount, type) ==
    [user_id |-> user_id, amount |-> (IF amount < 0 THEN -amount ELSE amount), type |-> type]
\* INSERT INTO transactions (user_id, amount, type)
Tx(user_id, amount, type) == [user_id |-> user_id, amount |-> amount, type |-> type]
\* INSERT INTO raid_sessions (player_id, map_id, expires_at), the other
\* columns at their defaults
NewSession(user_id, map_id) ==
    [player_id |-> user_id, map_id |-> map_id, status |-> "active",
     earnings_buffer |-> 0, dug_history |-> json_dumps(<<>>),
     expires_at |-> now + SESSION_SECONDS]

\* by_position: whether the fetched map row answers to map_data[0], map_data[1]
\* the handler from its first write on: the relative UPDATE of the balance,
\* the two INSERTs, the read of the map row and the commit
start_writes(user_id, map_id, by_position) ==
    IF ~by_position
         \* map_data[0] raises KeyError after the writes and before
         \* conn.commit(): the debit, the ledger entry and the session are lost
         THEN Fail(500, "Internal server error")
    ELSE IF ~maps[map_id].grid_json.ok \/ ~maps[map_id].dug_json.ok
         \* json.loads raises before conn.commit(): nothing is committed
         THEN Fail(500, "Internal server error")
    ELSE Outcome(Response(200, "ok", NoneVal, FALSE, Len(sessions) + 1),
                 [users EXCEPT ![user_id].balance = @ - FEE],
                 maps,
                 Append(sessions, NewSession(user_id, map_id)),
                 Append(ledger, Tx(user_id, -FEE, "raid_entry")))

\* the handler up to its first write: the refusal it returns, or Pass
start_checks(user_id, map_id) ==
    IF map_id = NoneVal \/ map_id = 0 THEN Fail(400, "Missing map_id")
    ELSE IF insufficient_balance(user_id) THEN Fail(400, "Insufficient balance")
    ELSE IF map_id \notin DOMAIN maps THEN Fail(404, "Map not found")
    ELSE Pass

start(user_id, map_id, by_position) ==
    IF start_checks(user_id, map_id) # Pass THEN start_checks(user_id, map_id)
    ELSE start_writes(user_id, map_id, by_position)
raid_start(user_id, map_id, by_position) == Commit(start(user_id, map_id, by_position))

(***************************************************************************)
(* raid_dig                                                                *)
(***************************************************************************)
Range(seq) == {seq[i] : i \in DOMAIN seq}
\* WHERE id = session_id AND player_id = user_id
own_session(session_id, user_id) ==
    session_id \in DOMAIN sessions /\ sessions[session_id].player_id = user_id
\* `datetime.now() > datetime.fromisoformat(session['expires_at'])`
expired(session) == now > session.expires_at
\* a variant of dig_reward that pays the chest reward for every safe cell
dig_reward_flat(cell_type) == REWARD_CHEST
\* a variant of already_dug that looks at the last cell of the history only
already_dug_last(cell_index, dug_history) ==
    dug_history # <<>> /\ cell_index = dug_history[Len(dug_history)]
\* `if cell_index in dug_history`
already_dug(cell_index, dug_history) == cell_index \in Range(dug_history)
\* `0.05 if cell_type == 4 else 0.01`
dig_reward(cell_type) == IF cell_type = CHEST THEN REWARD_CHEST ELSE REWARD_EMPTY
\* `opened >= 12`
stage_complete(dug) == Len(dug) >= STAGE_TARGET
\* a variant of timeout_session that only times out a session still active
timeout_session_if_active(session) ==
    IF session.status = "active" THEN [session EXCEPT !.status = "timeout"] ELSE session
\* UPDATE raid_sessions SET status = 'timeout'
timeout_session(session) == [session EXCEPT !.status = "timeout"]
\* a variant of dead_session that forfeits the earnings of the dead raider
dead_session_forfeit(session) ==
    [session EXCEPT !.status = "dead", !.earnings_buffer = 0]
\* UPDATE raid_sessions SET status = 'dead'
dead_session(session) == [session EXCEPT !.status = "dead"]
\* UPDATE raid_sessions SET status = 'hurt'
hurt_session(session) == [session EXCEPT !.status = "hurt"]
\* a variant of safe_session that overwrites the earnings with the last reward
safe_session_overwrite(session, dug_history, cell_index, reward) ==
    [session EXCEPT !.earnings_buffer = reward,
                    !.dug_history = json_dumps(Append(dug_history, cell_index))]
\* UPDATE raid_sessions SET earnings_buffer = ..., dug_history = ...
safe_session(session, dug_history, cell_index, reward) ==
    [session EXCEPT !.earnings_buffer = @ + reward,
                    !.dug_history = json_dumps(Append(dug_history, cell_index))]
\* dug.append(cell_index); UPDATE maps SET dug_json = json.dumps(dug)
dug_map(map, dug, cell_index) ==
    [map EXCEPT !.dug_json = json_dumps(Append(dug, cell_index))]

dig(user_id, session_id, cell_index) ==
    IF \/ session_id = NoneVal \/ cell_index = NoneVal
       \/ cell_index < 0 \/ cell_index >= GRID_CELLS
    THEN Fail(400, "Missing or invalid data")
    ELSE IF ~own_session(session_id, user_id) THEN Fail(404, "Session not found")
    ELSE
    LET session == sessions[session_id]
        map_id == session.map_id
        dug_history == safe_json_loads(session.dug_history, <<>>)
        grid == safe_json_loads(maps[map_id].grid_json, None)
        dug == safe_json_loads(maps[map_id].dug_json, None)
        cell_type == Cell(grid, cell_index)
    IN
    IF expired(session)
    THEN Outcome(Response(200, "timeout", NoneVal, FALSE, NoneVal),
                 users, maps,
                 [sessions EXCEPT ![session_id] = timeout_session(session)],
                 ledger)
    ELSE IF already_dug(cell_index, dug_history) THEN Fail(400, "Cell already dug")
    ELSE IF grid = None THEN Fail(500, "Map data corrupted")
    ELSE IF dug = None THEN Fail(500, "Map data corrupted")
    ELSE IF cell_type = SNAKE
    THEN Outcome(Response(200, "dead", 0, FALSE, NoneVal),
                 users,
                 [maps EXCEPT ![map_id] = dug_map(@, dug, cell_index)],
                 [sessions EXCEPT ![session_id] = dead_session(session)],
                 ledger)
    ELSE IF cell_type = HOLE
    THEN Outcome(Response(200, "hurt", NoneVal, FALSE, NoneVal),
                 users, maps,
                 [sessions EXCEPT ![session_id] = hurt_session(session)],
                 ledger)
    ELSE LET reward == dig_reward(cell_type) IN
         Outcome(Response(200, "safe", reward,
                          stage_complete(Append(dug, cell_index)), NoneVal),
                 users,
                 [maps EXCEPT ![map_id] = dug_map(@, dug, cell_index)],
                 [sessions EXCEPT ![session_id] =
                     safe_session(session, dug_history, cell_index, reward)],
                 ledger)
raid_dig(user_id, session_id, cell_index) == Commit(dig(user_id, session_id, cell_index))

(***************************************************************************)
(* raid_leave                                                              *)
(***************************************************************************)
\* a variant of leave_earnings that pays a session out only while it is active
leave_earnings_if_active(session) ==
    IF session.status = "active" THEN session.earnings_buffer ELSE 0
\* `earnings = session['earnings_buffer']`
leave_earnings(session) == session.earnings_buffer
\* UPDATE raid_sessions SET status = 'completed'
completed_session(session) == [session EXCEPT !.status = "completed"]

\* the handler from its first write on: the relative UPDATE of the balance with
\* the earnings it has read, the INSERT, the UPDATE of the status, the commit
leave_writes(user_id, session_id, earnings) ==
    Outcome(Response(200, "success", earnings, FALSE, NoneVal),
            [users EXCEPT ![user_id].balance = @ + earnings],
            maps,
            [sessions EXCEPT ![session_id] = completed_session(@)],
            Append(ledger, Tx(user_id, earnings, "raid_win")))

leave(user_id, session_id) ==
    IF ~own_session(session_id, user_id) THEN Fail(404, "Session not found")
    ELSE leave_writes(user_id, session_id, leave_earnings(sessions[session_id]))
raid_leave(user_id, session_id) == Commit(leave(user_id, session_id))

(***************************************************************************)
(* my_tombs_claim                                                          *)
(***************************************************************************)
\* WHERE id = map_id AND creator_id = user_id
own_map(map_id, user_id) ==
    map_id \in DOMAIN maps /\ maps[map_id].creator_id = user_id
\* sum(1 for i, x in enumerate(grid) if x in [0, 4] and i not in dug)
safe_cells(grid, dug) ==
    Cardinality({i \in 0..(Len(grid) - 1) :
                    Cell(grid, i) \in {EMPTY, CHEST} /\ i \notin Range(dug)})
\* a variant of not_ready that lets a map with exactly 12 safe cells through
not_ready_above(remaining) == remaining > CLAIM_TARGET
\* `if safe_cells >= 12`
not_ready(remaining) == remaining >= CLAIM_TARGET
\* UPDATE maps SET active = FALSE
claimed_map(map) == [map EXCEPT !.active = FALSE]

\* the handler up to its first write: the refusal it returns, or Pass
claim_checks(user_id, map_id) ==
    IF ~own_map(map_id, user_id) THEN Fail(404, "Map not found")
    ELSE IF ~maps[map_id].grid_json.ok \/ ~maps[map_id].dug_json.ok
         \* json.loads raises: nothing is committed
         THEN Fail(500, "Internal server error")
    ELSE IF not_ready(safe_cells(maps[map_id].grid_json.val, maps[map_id].dug_json.val))
         THEN Fail(400, "Not ready to claim")
    ELSE Pass
\* the handler from its first write on: UPDATE maps, the relative UPDATE of the
\* balance, the INSERT, the commit
claim_writes(user_id, map_id) ==
    Outcome(Response(200, "success", CLAIM_REWARD, FALSE, NoneVal),
            [users EXCEPT ![user_id].balance = @ + CLAIM_REWARD],
            [maps EXCEPT ![map_id] = claimed_map(@)],
            sessions,
            Append(ledger, Tx(user_id, CLAIM_REWARD, "claim")))

claim(user_id, map_id) ==
    IF claim_checks(user_id, map_id) # Pass THEN claim_checks(user_id, map_id)
    ELSE claim_writes(user_id, map_id)
my_tombs_claim(user_id, map_id) == Commit(claim(user_id, map_id))

(***************************************************************************)
(* The clock                                                               *)
(***************************************************************************)
Tick ==
    /\ now' = now + TickStep
    /\ UNCHANGED <<users, maps, sessions, ledger>>

(***************************************************************************)
(* The system: any caller may send any request at any time                 *)
(***************************************************************************)
Dug(m) == maps[m].dug_json.val
\* the bounds of the model, as a predicate of the state
Bounded ==
    /\ Len(maps) <= MaxMaps
    /\ Len(sessions) <= MaxSessions
    /\ Len(ledger) <= MaxLedger
    /\ now <= MaxTime
    /\ \A m \in DOMAIN maps : Len(Dug(m)) <= MaxDug

\* the grids, the ids and the cell indices that requests carry
Grids == {GridA, GridB, <<>>}
MapIds == 1..MaxMaps \cup {NoneVal}
SessionIds == 1..MaxSessions \cup {NoneVal}
CellIndexes == 0..(MaxCell - 1) \cup {GRID_CELLS}

Init ==
    /\ users = <<>>
    /\ maps = <<>>
    /\ sessions = <<>>
    /\ ledger = <<>>
    /\ now = 0
    /\ earned = <<>>
    /\ pc = "any"
    /\ inflight = <<>>

\* what the caller of raid_start observes: a new session has earned nothing
start_earned(resp) == IF resp.code = 200 THEN Append(earned, 0) ELSE earned
\* what the caller of raid_dig observes: the reward of a response with status safe
dig_earned(session_id, resp) ==
    IF resp.code = 200 /\ resp.msg = "safe"
    THEN [earned EXCEPT ![session_id] = @ + resp.reward]
    ELSE earned

Login == \E u \in Users : login(u) /\ UNCHANGED <<earned, pc, inflight>>
MapsCreate ==
    \E u \in Users, g \in Grids :
        maps_create(u, g) /\ Bounded' /\ UNCHANGED <<earned, pc, inflight>>
RaidScout == \E u \in Users : raid_scout(u) /\ UNCHANGED <<earned, pc, inflight>>
RaidStart ==
    \E u \in Users, m \in MapIds, p \in BOOLEAN :
        /\ raid_start(u, m, p)
        /\ earned' = start_earned(start(u, m, p).resp)
        /\ Bounded'
        /\ UNCHANGED <<pc, inflight>>
RaidDig ==
    \E u \in Users, s \in SessionIds, c \in CellIndexes :
        /\ raid_dig(u, s, c)
        /\ earned' = dig_earned(s, dig(u, s, c).resp)
        /\ Bounded'
        /\ UNCHANGED <<pc, inflight>>
RaidLeave ==
    \E u \in Users, s \in SessionIds :
        raid_leave(u, s) /\ Bounded' /\ UNCHANGED <<earned, pc, inflight>>
MyTombsClaim ==
    \E u \in Users, m \in MapIds :
        my_tombs_claim(u, m) /\ Bounded' /\ UNCHANGED <<earned, pc, inflight>>
Clock == Tick /\ Bounded' /\ UNCHANGED <<earned, pc, inflight>>

Next ==
    \/ Login
    \/ MapsCreate
    \/ RaidScout
    \/ RaidStart
    \/ RaidDig
    \/ RaidLeave
    \/ MyTombsClaim
    \/ Clock

Spec == Init /\ [][Next]_vars

(***************************************************************************)
(* Stored JSON that does not parse.  The handlers only store what          *)
(* json.dumps gives; raid_dig reads every JSON column through              *)
(* safe_json_loads because the stored text may have been damaged outside   *)
(* the program, as the rows of test_corrupted_dug_history and              *)
(* test_corrupted_grid_dug are.  Corrupt is that damage: one JSON column   *)
(* of one row becomes a text that json.loads rejects.                      *)
(***************************************************************************)
Corrupt ==
    /\ \/ \E m \in DOMAIN maps :
             \/ maps' = [maps EXCEPT ![m].grid_json = BadJson] /\ UNCHANGED sessions
             \/ maps' = [maps EXCEPT ![m].dug_json = BadJson] /\ UNCHANGED sessions
       \/ \E s \in DOMAIN sessions :
             sessions' = [sessions EXCEPT ![s].dug_history = BadJson] /\ UNCHANGED maps
    /\ UNCHANGED <<users, ledger, now, earned, pc, inflight>>
NextCorrupt ==
    \/ Login
    \/ MapsCreate
    \/ RaidStart
    \/ RaidDig
    \/ Clock
    \/ Corrupt
SpecCorrupt == Init /\ [][NextCorrupt]_vars

(***************************************************************************)
(* A long raid: digs go on, on a few cells of the map, until the shared    *)
(* dug-set of the map has the length at which a stage is complete          *)
(***************************************************************************)
MaxStageDug == 12
StageCells == {0, 2, 4}
StageDig ==
    \E u \in Users, s \in SessionIds, c \in StageCells :
        /\ raid_dig(u, s, c)
        /\ earned' = dig_earned(s, dig(u, s, c).resp)
        /\ \A m \in DOMAIN maps' : Len(maps'[m].dug_json.val) <= MaxStageDug
        /\ UNCHANGED <<pc, inflight>>
NextStage ==
    \/ Login
    \/ MapsCreate
    \/ RaidStart
    \/ StageDig
SpecStage == Init /\ [][NextStage]_vars

(***************************************************************************)
(* The map builder alone: callers log in and create maps until a creator's *)
(* credits are used up                                                     *)
(***************************************************************************)
CreateGrids == {GridA, <<>>}
MapsCreateOnly ==
    \E u \in Users, g \in CreateGrids :
        /\ maps_create(u, g)
        /\ Len(maps') <= MaxCreated
        /\ UNCHANGED <<earned, pc, inflight>>
NextCreate ==
    \/ Login
    \/ MapsCreateOnly
SpecCreate == Init /\ [][NextCreate]_vars

(***************************************************************************)
(* The end-to-end scenario of the spec: user 1 creates a map, user 2 raids *)
(* it: an empty cell, a trap, leave                                        *)
(***************************************************************************)
Cast == [creator |-> 1, raider |-> 2]
Creator == Cast.creator
Raider == Cast.raider
InitScenario ==
    /\ users = <<>>
    /\ maps = <<>>
    /\ sessions = <<>>
    /\ ledger = <<>>
    /\ now = 0
    /\ earned = <<>>
    /\ pc = "begin"
    /\ inflight = <<>>
ScLoginCreator ==
    pc = "begin" /\ login(Creator) /\ pc' = "creator" /\ UNCHANGED <<earned, inflight>>
ScCreate ==
    pc = "creator" /\ maps_create(Creator, GridA) /\ pc' = "created" /\ UNCHANGED <<earned, inflight>>
ScLoginRaider ==
    pc = "created" /\ login(Raider) /\ pc' = "raider" /\ UNCHANGED <<earned, inflight>>
ScStart ==
    /\ pc = "raider"
    /\ \E p \in BOOLEAN :
          /\ raid_start(Raider, 1, p)
          /\ earned' = start_earned(start(Raider, 1, p).resp)
    /\ pc' = "started"
    /\ UNCHANGED inflight
ScDigEmpty ==
    /\ pc = "started"
    /\ \E c \in 0..(GRID_CELLS - 1) :
          /\ Cell(GridA, c) = EMPTY
          /\ raid_dig(Raider, 1, c)
          /\ earned' = dig_earned(1, dig(Raider, 1, c).resp)
    /\ pc' = "dug_empty"
    /\ UNCHANGED inflight
ScDigTrap ==
    /\ pc = "dug_empty"
    /\ \E c \in 0..(GRID_CELLS - 1) :
          /\ Cell(GridA, c) = SNAKE
          /\ raid_dig(Raider, 1, c)
          /\ earned' = dig_earned(1, dig(Raider, 1, c).resp)
    /\ pc' = "dug_trap"
    /\ UNCHANGED inflight
ScLeave ==
    pc = "dug_trap" /\ raid_leave(Raider, 1) /\ pc' = "left" /\ UNCHANGED <<earned, inflight>>
NextScenario ==
    \/ ScLoginCreator
    \/ ScCreate
    \/ ScLoginRaider
    \/ ScStart
    \/ ScDigEmpty
    \/ ScDigTrap
    \/ ScLeave
SpecScenario == InitScenario /\ [][NextScenario]_vars

(***************************************************************************)
(* Concurrent requests.  Each request is served by a worker on a           *)
(* connection of its own (get_db_connection in every handler), so in a     *)
(* transaction of its own, at the default isolation and without            *)
(* SELECT ... FOR UPDATE: a SELECT reads what is committed when it runs,   *)
(* an UPDATE takes the lock of its row and holds it to the commit.  For    *)
(* every other transaction the writes and the commit of a handler are      *)
(* therefore one step, and a handler is two steps: its reads and checks,   *)
(* then its writes and commit.  A relative UPDATE (balance = balance - fee)*)
(* acts on the row as committed when it runs; an UPDATE with a value the   *)
(* handler computed (dug_json = json.dumps(dug)) writes that value.        *)
(***************************************************************************)
MaxInflight == 2
MaxRaceSessions == 2
MaxRaceDug == 2

Workers == 1..MaxInflight
Idle == [at |-> "idle"]
Pending == Response(0, "pending", NoneVal, FALSE, NoneVal)
\* the worker has no request in progress
Free(w) == inflight[w].at \in {"idle", "done"}
InProgress(w) == ~Free(w)

InitRace ==
    /\ users = <<>>
    /\ maps = <<>>
    /\ sessions = <<>>
    /\ ledger = <<>>
    /\ now = 0
    /\ earned = <<>>
    /\ pc = "any"
    /\ inflight = [w \in Workers |-> Idle]

\* ---- concurrent POST /api/raid/start of one player on map 1 ----
StartBegin ==
    \E w \in Workers, p \in BOOLEAN :
        /\ Free(w)
        /\ inflight' = [inflight EXCEPT ![w] =
              [at |-> "begin", op |-> "start", user_id |-> Raider, map_id |-> 1,
               by_position |-> p, resp |-> Pending]]
        /\ UNCHANGED <<users, maps, sessions, ledger, now, earned, pc>>
\* SELECT balance, `if balance < fee`, SELECT id FROM maps
StartCheck ==
    \E w \in Workers :
        /\ inflight[w].at = "begin" /\ inflight[w].op = "start"
        /\ LET r == inflight[w]
               o == start_checks(r.user_id, r.map_id)
           IN inflight' = [inflight EXCEPT ![w] =
                  IF o # Pass THEN [r EXCEPT !.at = "done", !.resp = o.resp]
                  ELSE [r EXCEPT !.at = "checked"]]
        /\ UNCHANGED <<users, maps, sessions, ledger, now, earned, pc>>
\* UPDATE users, INSERT INTO transactions, INSERT INTO raid_sessions, commit
StartWrite ==
    \E w \in Workers :
        /\ inflight[w].at = "checked" /\ inflight[w].op = "start"
        /\ LET r == inflight[w]
               o == start_writes(r.user_id, r.map_id, r.by_position)
           IN /\ Commit(o)
              /\ earned' = start_earned(o.resp)
              /\ inflight' = [inflight EXCEPT ![w] = [r EXCEPT !.at = "done", !.resp = o.resp]]
        /\ UNCHANGED pc
NextStartRace ==
    \/ Login
    \/ MapsCreate
    \/ StartBegin
    \/ StartCheck
    \/ StartWrite
SpecStartRace == InitRace /\ [][NextStartRace]_vars

\* ---- concurrent POST /api/maps/create of one creator ----
CreateBegin ==
    \E w \in Workers, g \in CreateGrids :
        /\ Free(w)
        /\ inflight' = [inflight EXCEPT ![w] =
              [at |-> "begin", op |-> "create", user_id |-> Creator, grid |-> g,
               resp |-> Pending]]
        /\ UNCHANGED <<users, maps, sessions, ledger, now, earned, pc>>
\* the validation of the grid, SELECT builder_credits, `builder_credits <= 0`
CreateCheck ==
    \E w \in Workers :
        /\ inflight[w].at = "begin" /\ inflight[w].op = "create"
        /\ LET r == inflight[w]
               o == create_checks(r.user_id, r.grid)
           IN inflight' = [inflight EXCEPT ![w] =
                  IF o # Pass THEN [r EXCEPT !.at = "done", !.resp = o.resp]
                  ELSE [r EXCEPT !.at = "checked"]]
        /\ UNCHANGED <<users, maps, sessions, ledger, now, earned, pc>>
\* UPDATE users SET builder_credits = builder_credits - 1, INSERT INTO maps, commit
CreateWrite ==
    \E w \in Workers :
        /\ inflight[w].at = "checked" /\ inflight[w].op = "create"
        /\ LET r == inflight[w]
               o == create_writes(r.user_id, r.grid)
           IN /\ Commit(o)
              /\ inflight' = [inflight EXCEPT ![w] = [r EXCEPT !.at = "done", !.resp = o.resp]]
        /\ UNCHANGED <<earned, pc>>
NextCreateRace ==
    \/ Login
    \/ CreateBegin
    \/ CreateCheck
    \/ CreateWrite
SpecCreateRace == InitRace /\ [][NextCreateRace]_vars

\* ---- concurrent POST /api/raid/dig from different sessions on map 1 ----
\* the cells dug: an empty cell, a trap, a chest-half
RaceCells == {0, 2, 4}
\* the map and the sessions are set up by requests served one at a time
SetUpMap ==
    /\ maps = <<>>
    /\ maps_create(Creator, GridA)
    /\ UNCHANGED <<earned, pc, inflight>>
SetUpSession ==
    \E u \in Users :
        /\ Len(sessions) < MaxRaceSessions
        /\ raid_start(u, 1, TRUE)
        /\ earned' = start_earned(start(u, 1, TRUE).resp)
        /\ UNCHANGED <<pc, inflight>>
\* the digs in progress on a session, on a map
DigsOn(s) == {w \in Workers : InProgress(w) /\ inflight[w].session_id = s}
DigBegin ==
    \E w \in Workers, s \in DOMAIN sessions, c \in RaceCells :
        /\ Free(w)
        /\ DigsOn(s) = {}
        /\ Len(Dug(sessions[s].map_id)) + Cardinality({v \in Workers : InProgress(v)})
              < MaxRaceDug
        /\ inflight' = [inflight EXCEPT ![w] =
              [at |-> "begin", op |-> "dig", user_id |-> sessions[s].player_id,
               session_id |-> s, cell_index |-> c, resp |-> Pending,
               row |-> sessions[s], writes_dug |-> FALSE, dug_json |-> json_dumps(<<>>)]]
        /\ UNCHANGED <<users, maps, sessions, ledger, now, earned, pc>>
\* SELECT the session, the expiry and dug_history checks, SELECT the map row:
\* the handler now holds the rows it will write
DigRead ==
    \E w \in Workers :
        /\ inflight[w].at = "begin" /\ inflight[w].op = "dig"
        /\ LET r == inflight[w]
               m == sessions[r.session_id].map_id
               o == dig(r.user_id, r.session_id, r.cell_index)
           IN inflight' = [inflight EXCEPT ![w] =
                  IF o.resp.code >= 400 THEN [r EXCEPT !.at = "done", !.resp = o.resp]
                  ELSE [r EXCEPT !.at = "read", !.resp = o.resp,
                                 !.row = o.sessions[r.session_id],
                                 !.writes_dug = (o.maps # maps),
                                 !.dug_json = o.maps[m].dug_json]]
        /\ UNCHANGED <<users, maps, sessions, ledger, now, earned, pc>>
\* UPDATE raid_sessions, UPDATE maps SET dug_json = json.dumps(dug), commit
DigWrite ==
    \E w \in Workers :
        /\ inflight[w].at = "read" /\ inflight[w].op = "dig"
        /\ LET r == inflight[w]
               m == sessions[r.session_id].map_id
           IN /\ sessions' = [sessions EXCEPT ![r.session_id] = r.row]
              /\ maps' = IF r.writes_dug THEN [maps EXCEPT ![m].dug_json = r.dug_json]
                         ELSE maps
              /\ earned' = dig_earned(r.session_id, r.resp)
              /\ inflight' = [inflight EXCEPT ![w] = [r EXCEPT !.at = "done"]]
        /\ UNCHANGED <<users, ledger, now, pc>>
NextDigRace ==
    \/ Login
    \/ SetUpMap
    \/ SetUpSession
    \/ DigBegin
    \/ DigRead
    \/ DigWrite
SpecDigRace == InitRace /\ [][NextDigRace]_vars

\* ---- concurrent start, leave and claim requests on one tomb ----
MaxRaceLedger == 4
\* the tomb, and the digs that give a session earnings and make the tomb ready
\* to claim, are set up by requests served one at a time
SetUpTomb ==
    /\ maps = <<>>
    /\ maps_create(Creator, GridB)
    /\ UNCHANGED <<earned, pc, inflight>>
SetUpDig ==
    \E s \in DOMAIN sessions, c \in {0, 4} :
        /\ raid_dig(sessions[s].player_id, s, c)
        /\ earned' = dig_earned(s, dig(sessions[s].player_id, s, c).resp)
        /\ Len(Dug(sessions[s].map_id)') <= MaxRaceDug
        /\ UNCHANGED <<pc, inflight>>
\* StartWrite within the bounds
LedgerStartWrite ==
    StartWrite /\ Len(sessions') <= MaxRaceSessions /\ Len(ledger') <= MaxRaceLedger
LeaveBegin ==
    \E w \in Workers, s \in DOMAIN sessions :
        /\ Free(w)
        /\ inflight' = [inflight EXCEPT ![w] =
              [at |-> "begin", op |-> "leave", user_id |-> sessions[s].player_id,
               session_id |-> s, earnings |-> 0, resp |-> Pending]]
        /\ UNCHANGED <<users, maps, sessions, ledger, now, earned, pc>>
\* SELECT earnings_buffer, `if not session`, `earnings = session['earnings_buffer']`
LeaveRead ==
    \E w \in Workers :
        /\ inflight[w].at = "begin" /\ inflight[w].op = "leave"
        /\ LET r == inflight[w] IN
           inflight' = [inflight EXCEPT ![w] =
               IF ~own_session(r.session_id, r.user_id)
               THEN [r EXCEPT !.at = "done", !.resp = Fail(404, "Session not found").resp]
               ELSE [r EXCEPT !.at = "read",
                              !.earnings = leave_earnings(sessions[r.session_id])]]
        /\ UNCHANGED <<users, maps, sessions, ledger, now, earned, pc>>
\* UPDATE users SET balance = balance + earnings, INSERT INTO transactions,
\* UPDATE raid_sessions, commit
LeaveWrite ==
    \E w \in Workers :
        /\ inflight[w].at = "read" /\ inflight[w].op = "leave"
        /\ LET r == inflight[w]
               o == leave_writes(r.user_id, r.session_id, r.earnings)
           IN /\ Commit(o)
              /\ inflight' = [inflight EXCEPT ![w] = [r EXCEPT !.at = "done", !.resp = o.resp]]
        /\ Len(ledger') <= MaxRaceLedger
        /\ UNCHANGED <<earned, pc>>
ClaimBegin ==
    \E w \in Workers :
        /\ Free(w)
        /\ inflight' = [inflight EXCEPT ![w] =
              [at |-> "begin", op |-> "claim", user_id |-> Creator, map_id |-> 1,
               resp |-> Pending]]
        /\ UNCHANGED <<users, maps, sessions, ledger, now, earned, pc>>
\* SELECT grid_json, dug_json, `if not map_data`, `if safe_cells >= 12`
ClaimCheck ==
    \E w \in Workers :
        /\ inflight[w].at = "begin" /\ inflight[w].op = "claim"
        /\ LET r == inflight[w]
               o == claim_checks(r.user_id, r.map_id)
           IN inflight' = [inflight EXCEPT ![w] =
                  IF o # Pass THEN [r EXCEPT !.at = "done", !.resp = o.resp]
                  ELSE [r EXCEPT !.at = "checked"]]
        /\ UNCHANGED <<users, maps, sessions, ledger, now, earned, pc>>
\* UPDATE maps SET active = FALSE, UPDATE users SET balance = balance + reward,
\* INSERT INTO transactions, commit
ClaimWrite ==
    \E w \in Workers :
        /\ inflight[w].at = "checked" /\ inflight[w].op = "claim"
        /\ LET r == inflight[w]
               o == claim_writes(r.user_id, r.map_id)
           IN /\ Commit(o)
              /\ inflight' = [inflight EXCEPT ![w] = [r EXCEPT !.at = "done", !.resp = o.resp]]
        /\ Len(ledger') <= MaxRaceLedger
        /\ UNCHANGED <<earned, pc>>
NextLedgerRace ==
    \/ Login
    \/ SetUpTomb
    \/ SetUpDig
    \/ StartBegin
    \/ StartCheck
    \/ LedgerStartWrite
    \/ LeaveBegin
    \/ LeaveRead
    \/ LeaveWrite
    \/ ClaimBegin
    \/ ClaimCheck
    \/ ClaimWrite
SpecLedgerRace == InitRace /\ [][NextLedgerRace]_vars

(***************************************************************************)
(* Authentication: validate_init_data and require_auth.                    *)
(* An initData payload is its text, as far as the handler compares it, and *)
(* the key=value pairs that parse_qsl reads from it, in their order.  A    *)
(* value is of a kind: an integer in decimal, a JSON object (with its id), *)
(* a JSON array, a digest, or other text.  HMAC is an injective function:  *)
(* the digest of a key and a message is the pair of them.                  *)
(***************************************************************************)
AUTH_WINDOW == 86400
MOCK_USER == 1

\* the result of a call: the value returned (NoneVal: None), or an exception
Return(v) == [raised |-> FALSE, val |-> v]
Raise == [raised |-> TRUE, val |-> NoneVal]

\* a value: its kind, and the number, the text or the signed pair it holds
Value(kind, num, text, signed) ==
    [kind |-> kind, num |-> num, text |-> text, signed |-> signed]
IntText(n) == Value("int", n, "", <<>>)
Text(t) == Value("text", 0, t, <<>>)
JsonObject(id) == Value("object", id, "", <<>>)
JsonArray == Value("array", 0, "", <<>>)
\* hmac.new(key, msg, hashlib.sha256)
hmac_new(key, msg) == Value("digest", 0, "", <<key, msg>>)

\* the keys of the model, in sorted order
SortedKeys == <<"auth_date", "hash", "mock_init_data", "query_id", "user">>
\* dict(urllib.parse.parse_qsl(init_data)): of two pairs with one key the later wins
parse_qsl_dict(pairs) ==
    [k \in {pairs[i][1] : i \in DOMAIN pairs} |->
        LET last == CHOOSE i \in DOMAIN pairs :
                        /\ pairs[i][1] = k
                        /\ \A j \in DOMAIN pairs : pairs[j][1] = k => j <= i
        IN pairs[last][2]]
\* data.pop('hash')
pop_hash(data) == [k \in DOMAIN data \ {"hash"} |-> data[k]]
\* '\n'.join(f"{k}={v}" for k, v in sorted(data.items()))
data_check_string(data) ==
    LET keys == SelectSeq(SortedKeys, LAMBDA k : k \in DOMAIN data)
    IN [i \in DOMAIN keys |-> <<keys[i], data[keys[i]]>>]
\* hmac.new(b'WebAppData', BOT_TOKEN.encode(), hashlib.sha256).digest()
secret_key(bot_token) == hmac_new(Text("WebAppData"), Text(bot_token))
\* `time.time() - int(data['auth_date']) >= 86400`
stale(age) == age >= AUTH_WINDOW

\* BOT_TOKEN is the configured token, NoToken when the environment has none
NoToken == ""
validate_init_data(init_data, BOT_TOKEN, time) ==
    IF init_data.text = "mock_init_data" THEN Return(MOCK_USER)
    ELSE IF BOT_TOKEN = NoToken THEN Raise
    ELSE
    LET parsed == parse_qsl_dict(init_data.pairs) IN
    IF "auth_date" \notin DOMAIN parsed THEN Return(NoneVal)
    \* int() of a text that is no integer raises ValueError
    ELSE IF parsed["auth_date"].kind # "int" THEN Raise
    ELSE IF stale(time - parsed["auth_date"].num) THEN Return(NoneVal)
    ELSE IF "hash" \notin DOMAIN parsed THEN Return(NoneVal)
    ELSE
    LET received_hash == parsed["hash"]
        data == pop_hash(parsed)
        calculated_hash == hmac_new(secret_key(BOT_TOKEN), data_check_string(data))
    IN
    IF received_hash = calculated_hash
    THEN IF "user" \in DOMAIN data
         \* json.loads raises on other text, .get on a value that is no object:
         \* both are caught
         THEN IF data["user"].kind = "object" THEN Return(data["user"].num)
              ELSE Return(NoneVal)
         ELSE Return(NoneVal)
    ELSE Return(NoneVal)

\* `if not user_id: return None`; an exception of validate_init_data goes through
require_auth(init_data, BOT_TOKEN, time) ==
    LET user_id == validate_init_data(init_data, BOT_TOKEN, time) IN
    IF user_id.raised THEN Raise
    ELSE IF user_id.val = NoneVal \/ user_id.val = 0 THEN Return(NoneVal)
    ELSE user_id

\* ---- the payloads that requests carry ----
Token == "test_bot_token"
OtherToken == "other_bot_token"
\* the clock, and auth_date values around the end of the window
AuthNow == AUTH_WINDOW + 100
AuthDates == {AuthNow - AUTH_WINDOW - 1, AuthNow - AUTH_WINDOW,
              AuthNow - AUTH_WINDOW + 1, AuthNow, AuthNow + 50}
\* what the client signs: _generate_hash of src/test_validate.py
sign(fields, token) == hmac_new(secret_key(token), data_check_string(fields))
\* the fields other than hash: auth_date, user and query_id, each present or not
FieldChoices ==
    [auth_date : {Text("none"), Text("soon")} \cup {IntText(n) : n \in AuthDates},
     user : {Text("none"), Text("invalid json"), JsonArray,
             JsonObject(123), JsonObject(NoneVal)},
     query_id : {Text("q1")}]
\* the pairs of a choice: a field chosen as Text("none") is left out
PairsOf(c) ==
    (IF c.auth_date = Text("none") THEN <<>> ELSE << <<"auth_date", c.auth_date>> >>)
    \o (IF c.user = Text("none") THEN <<>> ELSE << <<"user", c.user>> >>)
    \o << <<"query_id", c.query_id>> >>
Reverse(seq) == [i \in DOMAIN seq |-> seq[Len(seq) + 1 - i]]
\* the hash sent with the fields: none, the right one, one made with another
\* token, one made before query_id was changed, and a text that is no digest
HashChoices(c) ==
    {Text("none"),
     sign(parse_qsl_dict(PairsOf(c)), Token),
     sign(parse_qsl_dict(PairsOf(c)), OtherToken),
     sign(parse_qsl_dict(PairsOf([c EXCEPT !.query_id = Text("q0")])), Token),
     Text("invalid")}
WithHash(pairs, h) ==
    IF h = Text("none") THEN pairs ELSE Append(pairs, <<"hash", h>>)
Query(pairs) == [text |-> "query", pairs |-> pairs]
MockInitData ==
    [text |-> "mock_init_data", pairs |-> << <<"mock_init_data", Text("")>> >>]
Payloads ==
    {MockInitData}
    \cup UNION {{Query(WithHash(PairsOf(c), h)) : h \in HashChoices(c)} :
                   c \in FieldChoices}
    \cup UNION {{Query(Reverse(WithHash(PairsOf(c), h))) : h \in HashChoices(c)} :
                   c \in {d \in FieldChoices : d.user = JsonObject(123)}}

\* a request arrives; validate_init_data runs; require_auth uses its result
InitAuth ==
    /\ users = <<>>
    /\ maps = <<>>
    /\ sessions = <<>>
    /\ ledger = <<>>
    /\ now = AuthNow
    /\ earned = <<>>
    /\ pc = "received"
    /\ \E p \in Payloads, t \in {Token, NoToken} :
          inflight = [init_data |-> p, BOT_TOKEN |-> t,
                      result |-> Return(NoneVal), user_id |-> Return(NoneVal)]
ValidateInitData ==
    /\ pc = "received"
    /\ inflight' = [inflight EXCEPT !.result =
                        validate_init_data(inflight.init_data, inflight.BOT_TOKEN, now)]
    /\ pc' = "validated"
    /\ UNCHANGED <<users, maps, sessions, ledger, now, earned>>
RequireAuth ==
    /\ pc = "validated"
    /\ inflight' = [inflight EXCEPT !.user_id =
                        require_auth(inflight.init_data, inflight.BOT_TOKEN, now)]
    /\ pc' = "authenticated"
    /\ UNCHANGED <<users, maps, sessions, ledger, now, earned>>
NextAuth ==
    \/ ValidateInitData
    \/ RequireAuth
SpecAuth == InitAuth /\ [][NextAuth]_vars

(***************************************************************************)
(* Vocabulary of the properties                                            *)
(***************************************************************************)
\* every cell index in [0, 48)
AllCells == 0..(GRID_CELLS - 1)
\* every session id a request may name: the stored ones, one that is not
\* stored, and none
AnySession == 1..(Len(sessions) + 1) \cup {NoneVal}
\* every map id a request may name
AnyMap == 1..(Len(maps) + 1) \cup {NoneVal}
\* the four non-active states
Terminal == {"dead", "hurt", "timeout", "completed"}
\* the outcome commits nothing
Unchanged(o) ==
    o.users = users /\ o.maps = maps /\ o.sessions = sessions /\ o.ledger = ledger
\* the grid, the shared dug-set and the private history a session works on
GridOf(s) == maps[sessions[s].map_id].grid_json.val
DugOf(s) == Dug(sessions[s].map_id)
History(s) == sessions[s].dug_history.val
\* the cells of type 0 or 4 of map m whose index is not in its dug-set
Remaining(m) ==
    Cardinality({i \in AllCells :
        /\ maps[m].grid_json.val[i + 1] \in {EMPTY, CHEST}
        /\ \A k \in DOMAIN Dug(m) : Dug(m)[k] # i})
\* the ledger entries of a user with a type
Entries(u, type) ==
    {i \in DOMAIN ledger : ledger[i].user_id = u /\ ledger[i].type = type}

(***************************************************************************)
(* C1 (as claimed): once a session is dead, hurt, timeout or completed,    *)
(* every dig and every leave on it is rejected and leaves the session's    *)
(* status, earnings_buffer and dug_history, the map's dug-set and the      *)
(* player's balance and ledger unchanged.                                  *)
(***************************************************************************)
C1_TerminalIsFinal ==
    \A s \in DOMAIN sessions :
        sessions[s].status \in Terminal =>
            \A u \in Users :
                /\ \A c \in AllCells :
                      /\ dig(u, s, c).resp.code >= 400
                      /\ Unchanged(dig(u, s, c))
                /\ leave(u, s).resp.code >= 400
                /\ Unchanged(leave(u, s))

(***************************************************************************)
(* C2: a leave on a session of the caller adds exactly the session's       *)
(* earnings_buffer to the caller's balance, appends exactly one ledger     *)
(* entry, of type raid_win and of that amount, and marks the session       *)
(* completed; a leave on a session that does not exist or is another       *)
(* player's returns 404 and changes no balance, ledger or session.         *)
(***************************************************************************)
C2_LeaveTransfers ==
    \A u \in Users : \A s \in AnySession :
        LET o == leave(u, s) IN
        IF s \in DOMAIN sessions /\ sessions[s].player_id = u
        THEN /\ o.resp.code = 200
             /\ o.users[u].balance = users[u].balance + sessions[s].earnings_buffer
             /\ o.users[u].builder_credits = users[u].builder_credits
             /\ \A v \in DOMAIN users \ {u} : o.users[v] = users[v]
             /\ Len(o.ledger) = Len(ledger) + 1
             /\ SubSeq(o.ledger, 1, Len(ledger)) = ledger
             /\ o.ledger[Len(o.ledger)] =
                    [user_id |-> u, amount |-> sessions[s].earnings_buffer,
                     type |-> "raid_win"]
             /\ o.sessions[s].status = "completed"
             /\ \A t \in DOMAIN sessions \ {s} : o.sessions[t] = sessions[t]
        ELSE /\ o.resp.code = 404
             /\ Unchanged(o)

\* a session with earnings has been left, in the presence of another player
C2_Witness ==
    \E s \in DOMAIN sessions :
        LET u == sessions[s].player_id IN
        /\ sessions[s].status = "completed"
        /\ sessions[s].earnings_buffer > 0
        /\ Cardinality(DOMAIN users) = 2
        /\ ledger # <<>>
        /\ ledger[Len(ledger)] =
              [user_id |-> u, amount |-> sessions[s].earnings_buffer, type |-> "raid_win"]
        /\ users[u].balance = LOGIN_BALANCE - FEE + sessions[s].earnings_buffer

(***************************************************************************)
(* C3: for a map of the caller, claimTomb succeeds iff fewer than 12 cells *)
(* of type 0 or 4 are outside the dug-set; on success the map becomes      *)
(* inactive, the caller's balance grows by 1.0 and one ledger entry of     *)
(* type claim is appended; when 12 or more remain, or the map is absent    *)
(* or another user's, it fails and changes no map, balance or ledger.      *)
(***************************************************************************)
C3_ClaimIffReady ==
    \A u \in Users : \A m \in AnyMap :
        LET o == claim(u, m) IN
        IF m \in DOMAIN maps /\ maps[m].creator_id = u
        THEN /\ o.resp.code = 200 <=> Remaining(m) < 12
             /\ o.resp.code = 200 =>
                   /\ o.maps = [maps EXCEPT ![m].active = FALSE]
                   /\ o.users[u].balance = users[u].balance + 100
                   /\ \A v \in DOMAIN users \ {u} : o.users[v] = users[v]
                   /\ o.ledger =
                        Append(ledger, [user_id |-> u, amount |-> 100, type |-> "claim"])
             /\ o.resp.code # 200 => Unchanged(o)
        ELSE /\ o.resp.code >= 400
             /\ Unchanged(o)

\* a map with fewer than 12 safe cells left has been claimed by its creator
C3_Witness ==
    \E m \in DOMAIN maps :
        /\ ~maps[m].active
        /\ Remaining(m) < 12
        /\ Entries(maps[m].creator_id, "claim") # {}
        /\ users[maps[m].creator_id].balance >= LOGIN_BALANCE + 100

(***************************************************************************)
(* C4 (as claimed): a map is deactivated and rewarded by claimTomb exactly *)
(* once: after a claimTomb on a map has succeeded (only that makes a map   *)
(* inactive), no later claimTomb on the same map succeeds, and its owner   *)
(* holds no more claim ledger entries than maps.                           *)
(***************************************************************************)
C4_ClaimOnce ==
    /\ \A m \in DOMAIN maps :
          ~maps[m].active => \A u \in Users : claim(u, m).resp.code # 200
    /\ \A u \in Users :
          Cardinality(Entries(u, "claim")) <=
              Cardinality({m \in DOMAIN maps : maps[m].creator_id = u})

(***************************************************************************)
(* C5: after any sequence of digs, a session's earnings_buffer is the sum  *)
(* of the rewards that its digs with outcome safe returned, where a        *)
(* chest-half yields 0.05 and an empty cell 0.01; digs with another        *)
(* outcome add nothing.                                                    *)
(***************************************************************************)
C5_EarningsAreSafeRewards ==
    /\ DOMAIN earned = DOMAIN sessions
    /\ \A s \in DOMAIN sessions : sessions[s].earnings_buffer = earned[s]
    /\ \A u \in Users : \A s \in DOMAIN sessions : \A c \in AllCells :
          LET o == dig(u, s, c) IN
          IF o.resp.code = 200 /\ o.resp.msg = "safe"
          THEN /\ GridOf(s)[c + 1] = CHEST => o.resp.reward = 5
               /\ GridOf(s)[c + 1] = EMPTY => o.resp.reward = 1
               /\ o.sessions[s].earnings_buffer =
                      sessions[s].earnings_buffer + o.resp.reward
          ELSE o.sessions[s].earnings_buffer = sessions[s].earnings_buffer

\* a session has dug a chest-half and an empty cell
C5_Witness ==
    \E s \in DOMAIN sessions :
        /\ Len(History(s)) = 2
        /\ \E a, b \in DOMAIN History(s) :
              /\ GridOf(s)[History(s)[a] + 1] = CHEST
              /\ GridOf(s)[History(s)[b] + 1] = EMPTY
        /\ sessions[s].earnings_buffer = 6

(***************************************************************************)
(* C6: a dig by the session's owner on a trap cell, before the session has *)
(* expired, sets the status to dead and returns reward 0 whatever the      *)
(* earnings_buffer; it appends the cell index to the map's shared dug-set  *)
(* and leaves earnings_buffer and the private dug_history unchanged.       *)
(***************************************************************************)
C6_TrapKills ==
    \A s \in DOMAIN sessions : \A c \in AllCells :
        LET u == sessions[s].player_id
            m == sessions[s].map_id
            o == dig(u, s, c)
        IN
        (GridOf(s)[c + 1] = SNAKE /\ ~(now > sessions[s].expires_at)) =>
            /\ o.resp.code = 200
            /\ o.resp.msg = "dead"
            /\ o.resp.reward = 0
            /\ o.sessions[s].status = "dead"
            /\ o.sessions[s].earnings_buffer = sessions[s].earnings_buffer
            /\ o.sessions[s].dug_history = sessions[s].dug_history
            /\ o.maps[m].dug_json.val = Append(Dug(m), c)

\* a session with earnings has died on a trap, which is in the shared dug-set
\* and not in the private history
C6_Witness ==
    \E s \in DOMAIN sessions :
        /\ sessions[s].status = "dead"
        /\ sessions[s].earnings_buffer > 0
        /\ \E k \in DOMAIN DugOf(s) :
              /\ GridOf(s)[DugOf(s)[k] + 1] = SNAKE
              /\ \A j \in DOMAIN History(s) : History(s)[j] # DugOf(s)[k]

(***************************************************************************)
(* C7: a dig with a cell index in [0, 48) on a session of the caller, made *)
(* when now > expires_at, returns status timeout whatever the cell's type  *)
(* and whether or not it was dug, and sets the session's status to timeout *)
(* without changing earnings_buffer, dug_history, the map's dug-set or any *)
(* balance; on a session that such a call has already marked timeout it    *)
(* returns timeout again and changes nothing.                              *)
(***************************************************************************)
C7_TimeoutIdempotent ==
    \A s \in DOMAIN sessions : \A c \in AllCells :
        LET u == sessions[s].player_id
            o == dig(u, s, c)
        IN
        now > sessions[s].expires_at =>
            /\ o.resp.code = 200
            /\ o.resp.msg = "timeout"
            /\ o.sessions[s].status = "timeout"
            /\ o.sessions[s].earnings_buffer = sessions[s].earnings_buffer
            /\ o.sessions[s].dug_history = sessions[s].dug_history
            /\ \A t \in DOMAIN sessions \ {s} : o.sessions[t] = sessions[t]
            /\ o.maps = maps
            /\ o.users = users
            /\ o.ledger = ledger
            /\ sessions[s].status = "timeout" => Unchanged(o)

\* an expired session with earnings and a dug cell has been marked timeout
C7_Witness ==
    \E s \in DOMAIN sessions :
        /\ sessions[s].status = "timeout"
        /\ now > sessions[s].expires_at
        /\ sessions[s].earnings_buffer > 0
        /\ History(s) # <<>>

(***************************************************************************)
(* C8 (as claimed): the end-to-end scenario.  A creator with 5 credits     *)
(* creates a valid map (16 walls, 4 traps, 2 pits, 2 adjacent chest-       *)
(* halves, 24 empty) and is left with 4; a raider with balance 1.0 starts  *)
(* a raid on it (balance 0.9), digs an empty cell (reward 0.01,            *)
(* earnings_buffer 0.01), digs a trap (status dead, reward 0) and leaves:  *)
(* the final balance is 0.91.                                              *)
(***************************************************************************)
C8_Scenario ==
    /\ pc = "creator" => users[Creator].builder_credits = 5
    /\ pc = "created" =>
          /\ users[Creator].builder_credits = 4
          /\ Len(maps) = 1
          /\ LET g == maps[1].grid_json.val IN
             /\ Cardinality({i \in DOMAIN g : g[i] = WALL}) = 16
             /\ Cardinality({i \in DOMAIN g : g[i] = SNAKE}) = 4
             /\ Cardinality({i \in DOMAIN g : g[i] = HOLE}) = 2
             /\ Cardinality({i \in DOMAIN g : g[i] = EMPTY}) = 24
             /\ \E i \in 1..47 : g[i] = CHEST /\ g[i + 1] = CHEST
    /\ pc = "raider" => users[Raider].balance = 100
    /\ pc = "started" =>
          /\ users[Raider].balance = 90
          /\ Len(sessions) = 1
          /\ sessions[1].status = "active"
          /\ \A c \in AllCells :
                GridOf(1)[c + 1] = EMPTY =>
                    /\ dig(Raider, 1, c).resp.msg = "safe"
                    /\ dig(Raider, 1, c).resp.reward = 1
    /\ pc = "dug_empty" =>
          /\ Len(sessions) = 1
          /\ earned[1] = 1
          /\ sessions[1].earnings_buffer = 1
          /\ \A c \in AllCells :
                GridOf(1)[c + 1] = SNAKE =>
                    /\ dig(Raider, 1, c).resp.msg = "dead"
                    /\ dig(Raider, 1, c).resp.reward = 0
    /\ pc = "dug_trap" =>
          /\ Len(sessions) = 1
          /\ sessions[1].status = "dead"
          /\ sessions[1].earnings_buffer = 1
          /\ users[Raider].balance = 90
    /\ pc = "left" =>
          /\ users[Raider].balance = 91
          /\ users[Creator].builder_credits = 4

\* the scenario from a start that got through: every step is as claimed
C8_ScenarioOnceStarted ==
    (pc \in {"started", "dug_empty", "dug_trap", "left"} /\ sessions = <<>>)
        \/ C8_Scenario

\* the scenario has run to its end: the raider died and left
C8_Witness ==
    /\ pc = "left"
    /\ Len(sessions) = 1
    /\ sessions[1].status = "completed"
    /\ Len(History(1)) = 1
    /\ \E k \in DOMAIN Dug(1) : GridOf(1)[Dug(1)[k] + 1] = SNAKE
    /\ ledger[Len(ledger)].type = "raid_win"

(***************************************************************************)
(* The grids that requests are tried with: GridA with one cell changed,    *)
(* GridA with its chest-halves moved to two cells 1, 2 or 8 apart, and     *)
(* grids of other lengths                                                  *)
(***************************************************************************)
WithCell(g, i, v) == [g EXCEPT ![i + 1] = v]
NoChest == WithCell(WithCell(GridA, 4, EMPTY), 5, EMPTY)
ChestAt(a, b) == WithCell(WithCell(NoChest, a, CHEST), b, CHEST)
GridFamily ==
    {WithCell(GridA, i, v) : i \in AllCells, v \in 0..5}
    \cup {ChestAt(a, a + d) : a \in {i \in 0..39 : NoChest[i + 1] \in {EMPTY, WALL}
                                                  /\ NoChest[i + 2] \in {EMPTY, WALL}
                                                  /\ NoChest[i + 3] \in {EMPTY, WALL}
                                                  /\ NoChest[i + 9] \in {EMPTY, WALL}},
                              d \in {1, 2, 8}}
    \cup {<<>>, SubSeq(GridA, 1, 47), Append(GridA, EMPTY), GridB}
\* 48 cells, exactly 4 traps, 2 pits and 2 chest-halves, the chest-halves
\* at indices differing by 1
GridOk(g) ==
    /\ Len(g) = 48
    /\ Cardinality({i \in DOMAIN g : g[i] = 2}) = 4
    /\ Cardinality({i \in DOMAIN g : g[i] = 3}) = 2
    /\ Cardinality({i \in DOMAIN g : g[i] = 4}) = 2
    /\ \E i \in 1..47 : g[i] = 4 /\ g[i + 1] = 4
\* the grid fails a rule
LengthWrong(g) == Len(g) # 48
TrapsWrong(g) == Cardinality({i \in DOMAIN g : g[i] = 2}) # 4
PitsWrong(g) == Cardinality({i \in DOMAIN g : g[i] = 3}) # 2
ChestsWrong(g) == Cardinality({i \in DOMAIN g : g[i] = 4}) # 2
ChestApart(g) ==
    \E i, j \in DOMAIN g : g[i] = 4 /\ g[j] = 4 /\ i < j /\ j - i # 1
FailsARule(g) ==
    LengthWrong(g) \/ TrapsWrong(g) \/ PitsWrong(g) \/ ChestsWrong(g) \/ ChestApart(g)
\* the builder credits a caller holds
Credits(u) == IF u \in DOMAIN users THEN users[u].builder_credits ELSE 0

(***************************************************************************)
(* C9: for every 48-cell grid with exactly 4 traps, 2 pits and 2 chest-    *)
(* halves at indices differing by 1, createMap succeeds iff the creator    *)
(* holds at least 1 builder credit; on success the credits decrease by     *)
(* exactly 1 and exactly one new map is stored, with that grid, an empty   *)
(* dug-set, active and not archived; with 0 credits it fails and neither   *)
(* credits nor maps change.                                                *)
(***************************************************************************)
C9_CreateIffCredit ==
    \A u \in Users : \A g \in GridFamily :
        LET o == create_map(u, g) IN
        GridOk(g) =>
            /\ o.resp.code = 200 <=> Credits(u) >= 1
            /\ o.resp.code = 200 =>
                  /\ o.users[u].builder_credits = users[u].builder_credits - 1
                  /\ o.users[u].balance = users[u].balance
                  /\ \A v \in DOMAIN users \ {u} : o.users[v] = users[v]
                  /\ Len(o.maps) = Len(maps) + 1
                  /\ SubSeq(o.maps, 1, Len(maps)) = maps
                  /\ o.maps[Len(o.maps)].creator_id = u
                  /\ o.maps[Len(o.maps)].grid_json.val = g
                  /\ o.maps[Len(o.maps)].dug_json.val = <<>>
                  /\ o.maps[Len(o.maps)].active = TRUE
                  /\ o.maps[Len(o.maps)].is_archived = FALSE
                  /\ o.sessions = sessions
                  /\ o.ledger = ledger
            /\ o.resp.code # 200 => o.resp.code = 400 /\ Unchanged(o)

\* a creator has used up the 5 credits on 5 maps, each stored as created
C9_Witness ==
    \E u \in DOMAIN users :
        /\ users[u].builder_credits = 0
        /\ Cardinality({m \in DOMAIN maps :
              /\ maps[m].creator_id = u
              /\ GridOk(maps[m].grid_json.val)
              /\ maps[m].dug_json.val = <<>>
              /\ maps[m].active
              /\ ~maps[m].is_archived}) = 5
        /\ create_map(u, GridA).resp.code = 400

(***************************************************************************)
(* C10: for any grid that fails a rule (length other than 48, trap count   *)
(* other than 4, pit count other than 2, chest-half count other than 2, or *)
(* chest-halves not at indices differing by exactly 1), createMap returns  *)
(* a validation error (400), the credits are unchanged and no map is       *)
(* stored.                                                                 *)
(***************************************************************************)
C10_BadGridRejected ==
    \A u \in Users : \A g \in GridFamily :
        FailsARule(g) =>
            /\ create_map(u, g).resp.code = 400
            /\ Unchanged(create_map(u, g))

\* a creator who holds credits and has created a map is refused a grid of
\* each kind: wrong length, trap count, pit count, chest count, chest apart
C10_Witness ==
    \E u \in DOMAIN users :
        /\ users[u].builder_credits >= 1
        /\ \E m \in DOMAIN maps : maps[m].creator_id = u
        /\ \A Broken \in {{g \in GridFamily : LengthWrong(g)},
                          {g \in GridFamily : ~LengthWrong(g) /\ TrapsWrong(g)},
                          {g \in GridFamily : ~LengthWrong(g) /\ PitsWrong(g)},
                          {g \in GridFamily : ~LengthWrong(g) /\ ChestsWrong(g)},
                          {g \in GridFamily : ~LengthWrong(g) /\ ~ChestsWrong(g)
                                              /\ ChestApart(g)}} :
              \E g \in Broken : create_map(u, g).resp.code = 400

(***************************************************************************)
(* C11 (as claimed): createMap rejects with a 400 validation error every   *)
(* grid that contains a cell value outside the cell-type codes 0..4 (a     *)
(* cell value 5, say), even when the caller holds a builder credit; no     *)
(* credit is consumed and no map is stored.                                *)
(***************************************************************************)
CellCodes == {EMPTY, WALL, SNAKE, HOLE, CHEST}
C11_UnknownCodeRejected ==
    \A u \in Users : \A g \in GridFamily :
        (\E i \in DOMAIN g : g[i] \notin CellCodes) =>
            /\ create_map(u, g).resp.code = 400
            /\ Unchanged(create_map(u, g))

(***************************************************************************)
(* C12 (as claimed): in every reachable state, every stored map's grid has *)
(* length 48 and contains exactly 4 trap cells, exactly 2 pit cells,       *)
(* exactly 2 chest-half cells at adjacent indices and exactly 16 wall      *)
(* cells, and no operation changes the grid of a stored map.               *)
(***************************************************************************)
\* the outcome keeps the grid of every stored map
GridsKept(o) ==
    \A m \in DOMAIN maps :
        m \in DOMAIN o.maps /\ o.maps[m].grid_json = maps[m].grid_json
C12_StoredGrids ==
    /\ \A m \in DOMAIN maps :
          LET g == maps[m].grid_json.val IN
          /\ maps[m].grid_json.ok
          /\ Len(g) = 48
          /\ Cardinality({i \in DOMAIN g : g[i] = 2}) = 4
          /\ Cardinality({i \in DOMAIN g : g[i] = 3}) = 2
          /\ Cardinality({i \in DOMAIN g : g[i] = 4}) = 2
          /\ \E i \in 1..47 : g[i] = 4 /\ g[i + 1] = 4
          /\ Cardinality({i \in DOMAIN g : g[i] = 1}) = 16
    /\ \A u \in Users :
          /\ GridsKept(login_user(u))
          /\ GridsKept(scout(u))
          /\ \A g \in Grids : GridsKept(create_map(u, g))
          /\ \A m \in AnyMap :
                /\ GridsKept(claim(u, m))
                /\ \A p \in BOOLEAN : GridsKept(start(u, m, p))
          /\ \A s \in AnySession :
                /\ GridsKept(leave(u, s))
                /\ \A c \in AllCells : GridsKept(dig(u, s, c))

(***************************************************************************)
(* C13 (as claimed): wall cells are not minable: a dig on a wall cell      *)
(* (type 1) never yields a reward, never increases the session's           *)
(* earnings_buffer, and never adds the cell index to the session's         *)
(* dug_history or to the map's shared dug-set.                             *)
(***************************************************************************)
C13_WallsNotMinable ==
    \A u \in Users : \A s \in DOMAIN sessions : \A c \in AllCells :
        LET o == dig(u, s, c)
            m == sessions[s].map_id
        IN
        GridOf(s)[c + 1] = WALL =>
            /\ o.resp.reward \in {NoneVal, 0}
            /\ o.sessions[s].earnings_buffer <= sessions[s].earnings_buffer
            /\ o.sessions[s].dug_history = sessions[s].dug_history
            /\ o.maps[m].dug_json = maps[m].dug_json

(***************************************************************************)
(* C14 (as claimed): in every reachable state, no raid session's player is *)
(* the creator of that session's target map: a start call by a map's       *)
(* creator on their own map never creates a session, and scout never       *)
(* returns a map owned by the caller or an inactive map.                   *)
(***************************************************************************)
C14_NoRaidOnOwnMap ==
    /\ \A s \in DOMAIN sessions :
          sessions[s].player_id # maps[sessions[s].map_id].creator_id
    /\ \A u \in Users : \A m \in DOMAIN maps : \A p \in BOOLEAN :
          maps[m].creator_id = u => start(u, m, p).sessions = sessions
    /\ \A u \in Users : \A m \in scout_candidates(u) :
          maps[m].creator_id # u /\ maps[m].active

(***************************************************************************)
(* C15 (as claimed): under every interleaving of concurrent start requests *)
(* by the same player, the balance-sufficiency check and the fee debit act *)
(* as one atomic unit: the player's balance is never negative, and the     *)
(* number of sessions created never exceeds floor(initial balance / fee).  *)
(***************************************************************************)
C15_NoDoubleSpend ==
    /\ \A u \in DOMAIN users : users[u].balance >= 0
    /\ Cardinality({s \in DOMAIN sessions : sessions[s].player_id = Raider})
          <= 100 \div 10

(***************************************************************************)
(* C16 (as claimed): under every interleaving of concurrent createMap      *)
(* requests by the same creator, the credit check and the credit decrement *)
(* act as one atomic unit: builder_credits is never negative and the       *)
(* number of maps created never exceeds the creator's initial credit       *)
(* count; the credit decrement and the map insert happen both or neither.  *)
(***************************************************************************)
C16_NoDoubleCredit ==
    \A u \in DOMAIN users :
        LET created == Cardinality({m \in DOMAIN maps : maps[m].creator_id = u}) IN
        /\ users[u].builder_credits >= 0
        /\ created <= 5
        /\ users[u].builder_credits + created = 5

(***************************************************************************)
(* C17 (as claimed): under every interleaving of concurrent dig requests   *)
(* from different sessions on the same map, no update of the shared        *)
(* dug-set is lost: after all requests complete, every cell index whose    *)
(* dig returned safe or dead is present in the map's dug-set.              *)
(***************************************************************************)
C17_NoLostDig ==
    (\A w \in Workers : Free(w)) =>
        \A w \in Workers :
            (inflight[w].at = "done" /\ inflight[w].resp.msg \in {"safe", "dead"}) =>
                \E k \in DOMAIN DugOf(inflight[w].session_id) :
                    DugOf(inflight[w].session_id)[k] = inflight[w].cell_index

(***************************************************************************)
(* C18 (as claimed): with a bot token configured and HMAC an injective     *)
(* function, validate returns the id embedded in the user field iff the    *)
(* payload has a hash field equal to the HMAC (under the key derived from  *)
(* the bot token) of the remaining fields serialised as key=value lines    *)
(* sorted by key, has an auth_date whose age (now - auth_date) is strictly *)
(* less than 24 hours, and has a user field that parses as a JSON object;  *)
(* in every other case (hash missing, hash altered, auth_date missing or   *)
(* stale, user absent or malformed) it returns invalid.                    *)
(***************************************************************************)
\* the fields of the payload of the request
Fields == parse_qsl_dict(inflight.init_data.pairs)
HashIsRight ==
    /\ "hash" \in DOMAIN Fields
    /\ Fields["hash"] =
          hmac_new(secret_key(inflight.BOT_TOKEN), data_check_string(pop_hash(Fields)))
AuthDateIsFresh ==
    /\ "auth_date" \in DOMAIN Fields
    /\ Fields["auth_date"].kind = "int"
    /\ now - Fields["auth_date"].num < 24 * 3600
UserIsObject ==
    "user" \in DOMAIN Fields /\ Fields["user"].kind = "object"
C18_ValidateIffSigned ==
    (pc = "validated" /\ inflight.BOT_TOKEN # NoToken) =>
        IF HashIsRight /\ AuthDateIsFresh /\ UserIsObject
        THEN inflight.result = Return(Fields["user"].num)
        ELSE inflight.result = Return(NoneVal)

(***************************************************************************)
(* C19 (as claimed): the literal bypass payload yields the fixed test      *)
(* identity only when a test/dev mode flag is configured; when no such     *)
(* flag is configured, validate returns invalid for the bypass payload and *)
(* no request carrying it is treated as authenticated.  The program reads  *)
(* no such flag (its configuration is DATABASE_URL, BOT_TOKEN, REDIS_URL   *)
(* and PORT, and it runs with debug=False): none is configured in any      *)
(* state.                                                                  *)
(***************************************************************************)
C19_NoBypassWithoutFlag ==
    inflight.init_data = MockInitData =>
        /\ pc \in {"validated", "authenticated"} => inflight.result = Return(NoneVal)
        /\ pc = "authenticated" => inflight.user_id = Return(NoneVal)

(***************************************************************************)
(* C20 (as claimed): start is all-or-nothing: it succeeds iff the caller's *)
(* balance is >= the fee (0.1) and the requested map exists, and then it   *)
(* debits exactly the fee, appends exactly one ledger entry of type        *)
(* raid_entry with amount -fee, and creates exactly one session with       *)
(* status active, empty dug_history, earnings_buffer 0 and expires_at =    *)
(* now + 120; when the balance is insufficient (400) or the map does not   *)
(* exist (404) it leaves the balance, the ledger and the set of sessions   *)
(* unchanged.                                                              *)
(***************************************************************************)
\* the balance a caller holds
Balance(u) == IF u \in DOMAIN users THEN users[u].balance ELSE 0
C20_StartAllOrNothing ==
    \A u \in Users : \A m \in AnyMap : \A p \in BOOLEAN :
        LET o == start(u, m, p) IN
        /\ o.resp.code = 200 <=> (Balance(u) >= 10 /\ m \in DOMAIN maps)
        /\ o.resp.code = 200 =>
              /\ o.users = [users EXCEPT ![u].balance = @ - 10]
              /\ o.ledger =
                    Append(ledger, [user_id |-> u, amount |-> -10, type |-> "raid_entry"])
              /\ Len(o.sessions) = Len(sessions) + 1
              /\ SubSeq(o.sessions, 1, Len(sessions)) = sessions
              /\ o.sessions[Len(o.sessions)] =
                    [player_id |-> u, map_id |-> m, status |-> "active",
                     earnings_buffer |-> 0, dug_history |-> json_dumps(<<>>),
                     expires_at |-> now + 120]
              /\ o.maps = maps
        /\ Balance(u) < 10 => o.resp.code = 400 /\ Unchanged(o)
        /\ m \notin DOMAIN maps => o.resp.code \in {400, 404} /\ Unchanged(o)

(***************************************************************************)
(* C21 (as claimed): in dig, when the stored grid or the stored shared     *)
(* dug-set of the map is unparsable, the call fails with an Internal error *)
(* (500, 'Map data corrupted') and changes no session, map or balance;     *)
(* when only the session's stored dug_history is unparsable it is treated  *)
(* as an empty history and the dig proceeds to its normal outcome (safe    *)
(* for an empty cell).                                                     *)
(***************************************************************************)
\* the stored columns a dig on session s reads
MapDataBroken(s) ==
    \/ ~maps[sessions[s].map_id].grid_json.ok
    \/ ~maps[sessions[s].map_id].dug_json.ok
HistoryBroken(s) == ~sessions[s].dug_history.ok
\* the dig on an unparsable history goes on as on an empty one
AsOnEmptyHistory(s, c, o) ==
    LET m == sessions[s].map_id
        t == maps[m].grid_json.val[c + 1]
    IN
    /\ o.resp.code = 200
    /\ t \in {EMPTY, CHEST} =>
          /\ o.resp.msg = "safe"
          /\ o.resp.reward = (IF t = CHEST THEN 5 ELSE 1)
          /\ o.sessions[s].dug_history = [ok |-> TRUE, val |-> <<c>>]
          /\ o.sessions[s].earnings_buffer = sessions[s].earnings_buffer + o.resp.reward
          /\ o.maps[m].dug_json.val = Append(maps[m].dug_json.val, c)
    /\ t = SNAKE => o.resp.msg = "dead" /\ o.sessions[s].status = "dead"
    /\ t = HOLE => o.resp.msg = "hurt" /\ o.sessions[s].status = "hurt"
C21_CorruptedDataAsClaimed ==
    \A s \in DOMAIN sessions : \A c \in AllCells :
        LET o == dig(sessions[s].player_id, s, c) IN
        /\ MapDataBroken(s) =>
              /\ o.resp.code = 500
              /\ o.resp.msg = "Map data corrupted"
              /\ Unchanged(o)
        /\ (~MapDataBroken(s) /\ HistoryBroken(s)) => AsOnEmptyHistory(s, c, o)

(***************************************************************************)
(* C21 (amended): in a dig by the session's owner with a cell index in     *)
(* [0, 48), before the session has expired and on a cell that is not in    *)
(* the session's dug_history: when the stored grid or the stored shared    *)
(* dug-set of the map is unparsable, the call fails with 500 'Map data     *)
(* corrupted' and changes no session, map or balance; when only the        *)
(* session's stored dug_history is unparsable it is treated as an empty    *)
(* history and the dig proceeds to its normal outcome (safe for an empty   *)
(* cell).                                                                  *)
(***************************************************************************)
C21_CorruptedData ==
    \A s \in DOMAIN sessions : \A c \in AllCells :
        LET o == dig(sessions[s].player_id, s, c) IN
        (/\ ~(now > sessions[s].expires_at)
         /\ HistoryBroken(s) \/ \A k \in DOMAIN History(s) : History(s)[k] # c) =>
            /\ MapDataBroken(s) =>
                  /\ o.resp.code = 500
                  /\ o.resp.msg = "Map data corrupted"
                  /\ Unchanged(o)
            /\ (~MapDataBroken(s) /\ HistoryBroken(s)) => AsOnEmptyHistory(s, c, o)

\* a session whose unparsable history of one dig was replaced by that of the
\* next dig now faces unparsable map data, before its expiry
C21_Witness ==
    \E s \in DOMAIN sessions :
        /\ sessions[s].dug_history.ok
        /\ Len(History(s)) = 1
        /\ sessions[s].earnings_buffer = 2
        /\ MapDataBroken(s)
        /\ ~(now > sessions[s].expires_at)
        /\ dig(sessions[s].player_id, s, 1).resp.code = 500

(***************************************************************************)
(* C22: a dig by the session's owner, before the session has expired, on a *)
(* cell that is already in the session's dug_history is rejected with      *)
(* 'Cell already dug' and changes nothing; so, with the digs served one    *)
(* after another, dug_history never holds the same index twice and each    *)
(* cell is rewarded at most once per session: what the session's safe digs *)
(* returned is one reward for each cell of its dug_history.                *)
(***************************************************************************)
RECURSIVE RewardsOf(_, _)
\* one reward for every cell of a history on a grid
RewardsOf(grid, history) ==
    IF history = <<>> THEN 0
    ELSE dig_reward(Cell(grid, history[1])) + RewardsOf(grid, Tail(history))
C22_DigOncePerSession ==
    \A s \in DOMAIN sessions :
        /\ \A i, j \in DOMAIN History(s) : History(s)[i] = History(s)[j] => i = j
        /\ earned[s] = RewardsOf(GridOf(s), History(s))
        /\ \A c \in AllCells :
              LET o == dig(sessions[s].player_id, s, c) IN
              /\ ((\E k \in DOMAIN History(s) : History(s)[k] = c)
                      /\ ~(now > sessions[s].expires_at)) =>
                    /\ o.resp.code = 400
                    /\ o.resp.msg = "Cell already dug"
                    /\ Unchanged(o)
              /\ (o.resp.code = 200 /\ o.resp.msg = "safe") =>
                    /\ \A k \in DOMAIN History(s) : History(s)[k] # c
                    /\ o.sessions[s].dug_history.val = Append(History(s), c)

\* a session that has dug two cells is asked, before its expiry, to dig the
\* first of them again
C22_Witness ==
    \E s \in DOMAIN sessions :
        /\ Len(History(s)) = 2
        /\ earned[s] > 0
        /\ ~(now > sessions[s].expires_at)
        /\ dig(sessions[s].player_id, s, History(s)[1]).resp.msg = "Cell already dug"

(***************************************************************************)
(* C23: a dig with outcome safe returns stage_complete = true exactly when,*)
(* counting the cell just dug, at least 12 distinct cells are opened in    *)
(* the map's shared dug-set; the threshold is 12 whatever the difficulty   *)
(* of the map.                                                             *)
(***************************************************************************)
C23_StageCompleteAt12 ==
    \A s \in DOMAIN sessions : \A c \in AllCells :
        LET o == dig(sessions[s].player_id, s, c)
            m == sessions[s].map_id
        IN
        (o.resp.code = 200 /\ o.resp.msg = "safe") =>
            (o.resp.flag <=>
                Cardinality(Range(o.maps[m].dug_json.val)) >= 12)

(***************************************************************************)
(* C24: in every reachable state a player has at most one session with     *)
(* status active; a start by a player who has an active session does not   *)
(* create a second one.                                                    *)
(***************************************************************************)
C24_OneActiveSession ==
    \A u \in Users :
        Cardinality({s \in DOMAIN sessions :
            sessions[s].player_id = u /\ sessions[s].status = "active"}) <= 1

(***************************************************************************)
(* C25: earnings are transferred at most once: the raid_win amounts        *)
(* credited for a session never exceed the rewards that its safe digs      *)
(* accrued; so what the ledger credits a player as raid_win never exceeds  *)
(* what the safe digs of that player's sessions accrued.                   *)
(***************************************************************************)
RECURSIVE Credited(_, _, _)
\* the sum of the amounts of the first n ledger entries of user u with a type
Credited(u, type, n) ==
    IF n = 0 THEN 0
    ELSE Credited(u, type, n - 1) +
         (IF ledger[n].user_id = u /\ ledger[n].type = type THEN ledger[n].amount ELSE 0)
RECURSIVE Accrued(_, _)
\* the sum of the rewards of the safe digs of the first n sessions, those of
\* player u
Accrued(u, n) ==
    IF n = 0 THEN 0
    ELSE Accrued(u, n - 1) + (IF sessions[n].player_id = u THEN earned[n] ELSE 0)
C25_TransferredOnce ==
    \A u \in Users :
        Credited(u, "raid_win", Len(ledger)) <= Accrued(u, Len(sessions))

(***************************************************************************)
(* C26: the ledger is append-only and agrees with the balances: in every   *)
(* committed state that start, leave and claim requests reach, however     *)
(* they interleave, the balance of each user is 1.0 plus the sum of the    *)
(* amounts of that user's ledger entries, and no request modifies or       *)
(* removes an entry that the ledger holds.                                 *)
(***************************************************************************)
RECURSIVE LedgerSum(_, _)
\* the sum of the amounts of the first n ledger entries of user u
LedgerSum(u, n) ==
    IF n = 0 THEN 0
    ELSE LedgerSum(u, n - 1) + (IF ledger[n].user_id = u THEN ledger[n].amount ELSE 0)
BalancesMatchLedger ==
    /\ \A u \in DOMAIN users : users[u].balance = 100 + LedgerSum(u, Len(ledger))
    /\ \A n \in DOMAIN ledger : ledger[n].user_id \in DOMAIN users
LedgerKept ==
    /\ Len(ledger') >= Len(ledger)
    /\ \A n \in DOMAIN ledger : ledger'[n] = ledger[n]
C26_LedgerMatchesBalances == [](BalancesMatchLedger) /\ [][LedgerKept]_vars

\* a start, a leave that paid earnings and a claim are in the ledger, and a
\* leave and a start have both passed their reads and not yet written
C26_Witness ==
    /\ \E n \in DOMAIN ledger : ledger[n].type = "raid_entry"
    /\ \E n \in DOMAIN ledger : ledger[n].type = "raid_win" /\ ledger[n].amount > 0
    /\ \E n \in DOMAIN ledger : ledger[n].type = "claim"
    /\ \E v, w \in Workers :
          /\ inflight[v].at = "read" /\ inflight[v].op = "leave"
          /\ inflight[w].at = "checked" /\ inflight[w].op = "start"

(***************************************************************************)
(* C27: the map's shared dug-set is a set: after any sequence of digs,     *)
(* repeated digs on a trap and digs of different sessions on the same cell *)
(* included, no index occurs in it more than once.                         *)
(***************************************************************************)
C27_DugSetHasNoDuplicates ==
    \A m \in DOMAIN maps :
        \A i, j \in DOMAIN Dug(m) : Dug(m)[i] = Dug(m)[j] => i = j

====
